---- MODULE Spec2Model ----
(***************************************************************************)
(* A model of affinder (src/src/affinder/affinder.py): the landmark        *)
(* workflow driven by next_layer_callback and start_affinder, and the      *)
(* estimator calculate_transform.                                          *)
(*                                                                         *)
(* Numbers.  Coordinates are integers.  A matrix entry is one of           *)
(*   I(n)   the float whose value is exactly the integer n,                *)
(*   RealV  a finite float whose value the model does not track (a         *)
(*          non-integral or rounded result of a least-squares fit),        *)
(*   NaNV   the float nan.                                                 *)
(* Products and sums of entries follow IEEE arithmetic on these classes.   *)
(* Points have ndim = 2 coordinates, the dimensionality model_class()      *)
(* builds its transform with.                                              *)
(***************************************************************************)
EXTENDS Integers, Sequences, FiniteSets, TLC

(* ---------------------------------------------------------------- bounds *)
\* longest point list a layer holds in the workflow
MaxPts == 3
\* longest point list handed to calculate_transform directly
MaxN == 3
\* calls of calculate_transform in one behaviour of the estimator
MaxCalls == 2
\* most layers the viewer offers as choices to the widget
MaxChoices == 6
\* the points a session puts on each layer
MaxSession == 5

\* pts0.shape[1]: the number of coordinates of a point
ndim == 2

(* ------------------------------------------------------- float entries *)
I(n) == [t |-> "int", v |-> n]
RealV == [t |-> "real", v |-> 0]
NaNV == [t |-> "nan", v |-> 0]

\* x * y on floats
EMul(x, y) ==
    IF x.t = "nan" \/ y.t = "nan" THEN NaNV
    ELSE IF x = I(0) \/ y = I(0) THEN I(0)
    ELSE IF x.t = "int" /\ y.t = "int" THEN I(x.v * y.v)
    ELSE RealV

\* x + y on floats
EAdd(x, y) ==
    IF x.t = "nan" \/ y.t = "nan" THEN NaNV
    ELSE IF x = I(0) THEN y
    ELSE IF y = I(0) THEN x
    ELSE IF x.t = "int" /\ y.t = "int" THEN I(x.v + y.v)
    ELSE RealV

\* the (ndim+1) x (ndim+1) product a @ b
MatMul(a, b) ==
    [r \in 1..3 |->
        [c \in 1..3 |->
            EAdd(EAdd(EMul(a[r][1], b[1][c]), EMul(a[r][2], b[2][c])),
                 EMul(a[r][3], b[3][c]))]]

\* the homogeneous matrix with linear part <<<<a, b>>, <<c, d>>>> and
\* translation <<tx, ty>>, every entry an entry of the float classes
Homog(a, b, tx, c, d, ty) ==
    << <<a, b, tx>>, <<c, d, ty>>, <<I(0), I(0), I(1)>> >>

\* np.full((d + 1, d + 1), np.nan): what a failed estimate leaves in params
NaNMat ==
    << <<NaNV, NaNV, NaNV>>, <<NaNV, NaNV, NaNV>>, <<NaNV, NaNV, NaNV>> >>

\* np.eye(3): params of a transform just built by model_class()
Identity == Homog(I(1), I(0), I(0), I(0), I(1), I(0))

(* ------------------------------------------------------ point lists *)
RECURSIVE SumX(_), SumY(_)
SumX(s) == IF s = <<>> THEN 0 ELSE s[1][1] + SumX(Tail(s))
SumY(s) == IF s = <<>> THEN 0 ELSE s[1][2] + SumY(Tail(s))

\* the centroid left in: the points scaled by n only
NotDemeaned(a) ==
    [i \in 1..Len(a) |-> <<Len(a) * a[i][1], Len(a) * a[i][2]>>]

\* n * (a - a.mean(axis=0)): the demeaned points, scaled by n to stay integral
Demean(a) ==
    [i \in 1..Len(a) |->
        <<Len(a) * a[i][1] - SumX(a), Len(a) * a[i][2] - SumY(a)>>]

RECURSIVE SumProd(_, _, _, _)
\* sum over i of a[i][j] * b[i][k]
SumProd(a, j, b, k) ==
    IF a = <<>> THEN 0
    ELSE a[1][j] * b[1][k] + SumProd(Tail(a), j, Tail(b), k)

Sign(x) == IF x > 0 THEN 1 ELSE IF x < 0 THEN -1 ELSE 0

\* num / den as a float entry (den > 0)
Quot(num, den) == IF num % den = 0 THEN I(num \div den) ELSE RealV

(* ------------------------------------------------------- the estimators *)
\* what a call produces: a transform with these params, or an exception
Ok(m) == [exc |-> "none", params |-> m]
Raise(e) == [exc |-> e, params |-> <<>>]

\* a fit whose linear part and translation are not integral: the bottom
\* row is written as [0, 0, 1] by the estimators themselves
InexactMat == Homog(RealV, RealV, RealV, RealV, RealV, RealV)

\* all points of the list are the same point (rms distance to the centroid 0)
Coincident(a) == \A i \in 1..Len(a) : a[i] = a[1]

\* twice the signed area of the triangle a[i], a[j], a[k]
Area2(a, i, j, k) ==
    (a[j][1] - a[i][1]) * (a[k][2] - a[i][2])
    - (a[k][1] - a[i][1]) * (a[j][2] - a[i][2])

\* index triples of the list whose points are not collinear
Triangles(a) ==
    {t \in (1..Len(a)) \X (1..Len(a)) \X (1..Len(a)) :
        t[1] < t[2] /\ t[2] < t[3] /\ Area2(a, t[1], t[2], t[3]) # 0}

\* the integer matrix <<<<l11, l12>>, <<l21, l22>>>>, <<tx, ty>> maps
\* every a[i] to b[i]
Fits(l11, l12, l21, l22, tx, ty, a, b) ==
    \A i \in 1..Len(a) :
        /\ l11 * a[i][1] + l12 * a[i][2] + tx = b[i][1]
        /\ l21 * a[i][1] + l22 * a[i][2] + ty = b[i][2]

\* AffineTransform.estimate(a, b): the affine map taking a onto b.
\* Coincident points fail the normalisation and a design matrix of rank
\* below ndim + 1 is the degenerate case: both leave nan in params.  The
\* fit through a triangle of a is exact; it is kept when it is integral
\* and maps every a[i] to b[i].
EstimateAffine(a, b) ==
    IF Coincident(a) \/ Coincident(b) THEN Ok(NaNMat)
    ELSE IF Len(a) # Len(b) THEN Raise("ValueError")
    ELSE IF Triangles(a) = {} THEN Ok(NaNMat)
    ELSE
      LET t == CHOOSE x \in Triangles(a) : TRUE
          i == t[1]
          j == t[2]
          k == t[3]
          d0 == Area2(a, i, j, k)
          sg == Sign(d0)
          det == sg * d0
          u1x == a[j][1] - a[i][1]
          u1y == a[j][2] - a[i][2]
          u2x == a[k][1] - a[i][1]
          u2y == a[k][2] - a[i][2]
          w1x == b[j][1] - b[i][1]
          w1y == b[j][2] - b[i][2]
          w2x == b[k][1] - b[i][1]
          w2y == b[k][2] - b[i][2]
          n11 == sg * (w1x * u2y - w2x * u1y)
          n12 == sg * (w2x * u1x - w1x * u2x)
          n21 == sg * (w1y * u2y - w2y * u1y)
          n22 == sg * (w2y * u1x - w1y * u2x)
          integral == \A x \in {n11, n12, n21, n22} : x % det = 0
          l11 == n11 \div det
          l12 == n12 \div det
          l21 == n21 \div det
          l22 == n22 \div det
          tx == b[i][1] - (l11 * a[i][1] + l12 * a[i][2])
          ty == b[i][2] - (l21 * a[i][1] + l22 * a[i][2])
      IN IF integral /\ Fits(l11, l12, l21, l22, tx, ty, a, b)
         THEN Ok(Homog(I(l11), I(l12), I(tx), I(l21), I(l22), I(ty)))
         ELSE Ok(InexactMat)

\* _umeyama(a, b, estimate_scale) in two dimensions: the rotation (and
\* scale) maximising the correlation of the demeaned lists, then the
\* translation between the centroids.  p and q are the sums of the dot and
\* cross products of matched demeaned points; the cross-covariance matrix
\* of rank 0 leaves nan in params.
Umeyama(a, b, estimate_scale) ==
    IF Len(a) # Len(b) THEN Raise("ValueError")
    ELSE
      LET n == Len(a)
          da == Demean(a)
          db == Demean(b)
          a11 == SumProd(db, 1, da, 1)
          a12 == SumProd(db, 1, da, 2)
          a21 == SumProd(db, 2, da, 1)
          a22 == SumProd(db, 2, da, 2)
          p == a11 + a22
          q == a21 - a12
          va == SumProd(da, 1, da, 1) + SumProd(da, 2, da, 2)
          tracked == IF estimate_scale
                     THEN (p # 0 \/ q # 0) /\ p % va = 0 /\ q % va = 0
                     ELSE (p = 0) # (q = 0)
          c == IF estimate_scale THEN p \div va ELSE Sign(p)
          s == IF estimate_scale THEN q \div va ELSE Sign(q)
          tx == Quot(SumX(b) - (c * SumX(a) - s * SumY(a)), n)
          ty == Quot(SumY(b) - (s * SumX(a) + c * SumY(a)), n)
      IN IF a11 = 0 /\ a12 = 0 /\ a21 = 0 /\ a22 = 0 THEN Ok(NaNMat)
         ELSE IF tracked THEN Ok(Homog(I(c), I(-s), tx, I(s), I(c), ty))
         ELSE Ok(InexactMat)

\* the members of AffineTransformChoices
Families == {"affine", "Euclidean", "similarity"}

\* model_class().estimate(a, b): the transform taking a onto b
Estimate(model_class, a, b) ==
    IF model_class = "affine" THEN EstimateAffine(a, b)
    ELSE Umeyama(a, b, model_class = "similarity")

\* the mis-wired estimator: fits src onto dst
calculate_transform_forward(src, dst, model_class) ==
    Estimate(model_class, src, dst)

\* calculate_transform(src, dst, model_class): model.estimate(dst, src)
calculate_transform(src, dst, model_class) ==
    Estimate(model_class, dst, src)

(* ------------------------------------------------------------ the state *)
VARIABLES
    given,      \* the point lists handed to calculate_transform, and how
                \* they were made
    models,     \* the transform objects built so far: models[i] is params
    calls,      \* the calls made so far: arguments, outcome, object returned
    button,     \* start_affinder._call_button.text
    connected,  \* the callback is connected to the two points layers
    bound,      \* the keyword arguments start_affinder curried into the
                \* callback: model_class and output
    pts0,       \* reference_points_layer.data
    pts1,       \* moving_points_layer.data
    selection,  \* viewer.layers.selection
    order,      \* viewer.layers, bottom to top
    mode,       \* the mode of each points layer
    affine,     \* the affine matrix of each layer
    mat,        \* the params of the transform estimated in this step,
                \* NoMat when the step estimated nothing
    written,    \* what np.savetxt wrote to the output in this step,
                \* NoFile when it did not run
    estimated,  \* history of a session: the pair counts at which its
                \* steps have estimated, in the order they did
    ticked,     \* delete_pts as 'Finish' was clicked in this step: "ticked"
                \* or "unticked", "none" when the step was no such click
    choices,    \* widget.reference.choices and widget.moving.choices: the
                \* layers of the viewer, each known by its name
    reference,  \* widget.reference.value
    moving,     \* widget.moving.value
    widgetReady \* _on_affinder_main_init has run

vars == <<given, models, calls, button, connected, bound, pts0, pts1,
          selection, order, mode, affine, mat, written, ticked, estimated,
          choices, reference, moving, widgetReady>>

widgetVars == <<choices, reference, moving, widgetReady>>

estimatorVars == <<given, models, calls>>
workflowVars == <<button, connected, bound, pts0, pts1, selection, order,
                  mode, affine, mat, written, ticked, estimated>>

(* -------------------------------------------------------- the workflow *)
NoMat == <<>>
NoFile == [delimiter |-> "", rows |-> <<>>]
None == "None"

PointsLayers == {"reference_pts", "moving_pts"}

\* the affine matrices the reference image layer may carry
RefAffines ==
    {Identity, Homog(I(2), I(0), I(1), I(0), I(1), I(-1))}

\* the k-th landmark the user marks on the reference image
Landmark(k) == <<(k \div 2) % 2, k % 2>>

\* the places the user may mark as the k-th point on the moving image: the
\* place a half turn about <<1/2, 1/2>> takes onto the k-th landmark, or a
\* stray place
MovingPlaces(k) == {<<1 - Landmark(k)[1], 1 - Landmark(k)[2]>>, <<2, 0>>}

\* np.savetxt(output, X, delimiter=','): one line per row of X, the values
\* of a row separated by the delimiter
savetxt(X, delimiter) == [delimiter |-> delimiter, rows |-> X]

\* viewer.layers.move(viewer.layers.index(layer), -1): the layer goes on top
MoveToTop(layers, layer) ==
    SelectSeq(layers, LAMBDA l : l # layer) \o <<layer>>

InitWorkflow ==
    /\ button = "Start"
    /\ connected = FALSE
    /\ bound = [model_class |-> "affine", output |-> None]
    /\ pts0 = <<>>
    /\ pts1 = <<>>
    /\ selection = {"moving"}
    /\ order = <<"reference", "moving">>
    /\ mode = [l \in PointsLayers |-> "pan_zoom"]
    /\ \E a \in RefAffines :
          affine = [l \in {"reference", "moving"} \cup PointsLayers |->
                        IF l = "reference" THEN a ELSE Identity]
    /\ mat = NoMat
    /\ written = NoFile
    /\ ticked = "none"
    /\ estimated = <<>>

\* the widget over the two image layers, after _on_affinder_main_init
WidgetSettled ==
    /\ choices = <<1, 2>>
    /\ reference = 1
    /\ moving = 2
    /\ widgetReady = TRUE

(* ------------------------------------- the estimator, called directly *)
\* coordinates of the landmarks handed to the estimator
Grid == {<<0, 0>>, <<1, 0>>, <<0, 1>>}

\* point lists of length 1..n over the grid
Lists(n) == UNION {[1..k -> Grid] : k \in 1..n}

\* integer maps <<l11, l12, l21, l22, tx, ty>> used to make matched lists:
\* translations, quarter turns, a scaling, a shear, a reflection and the
\* map onto a single point
Translations ==
    {<<1, 0, 0, 1, 0, 0>>, <<1, 0, 0, 1, 1, 1>>, <<1, 0, 0, 1, -2, 1>>}
Rigid ==
    Translations \cup {<<0, -1, 1, 0, 1, 0>>, <<-1, 0, 0, -1, 1, 1>>}
Similar == Rigid \cup {<<2, 0, 0, 2, 0, 1>>, <<0, -2, 2, 0, 0, 0>>}
Maps == Similar \cup {<<1, 1, 0, 1, 0, 0>>, <<0, 1, 1, 0, 0, 0>>,
                      <<0, 0, 0, 0, 1, 1>>}

\* the maps of a transform family
MapsOf(model_class) ==
    IF model_class = "Euclidean" THEN Rigid
    ELSE IF model_class = "similarity" THEN Similar
    ELSE {m \in Maps : m[1] * m[4] - m[2] * m[3] # 0}

\* the image of a point list under an integer map
Image(m, a) ==
    [i \in 1..Len(a) |->
        <<m[1] * a[i][1] + m[2] * a[i][2] + m[5],
          m[3] * a[i][1] + m[4] * a[i][2] + m[6]>>]

\* the integer map as a matrix of floats
AsMatrix(m) == Homog(I(m[1]), I(m[2]), I(m[5]), I(m[3]), I(m[4]), I(m[6]))

\* the list with its last point moved one step along the first axis
Nudged(a) ==
    [i \in 1..Len(a) |->
        IF i = Len(a) THEN <<a[i][1] + 1, a[i][2]>> ELSE a[i]]

\* the list without its last point
Shortened(a) == SubSeq(a, 1, Len(a) - 1)

\* the inputs: a list b over the grid and its image a = m(b), handed over
\* as (src, dst) = (a, b) so that m takes dst onto src, or as (b, a) so that
\* m takes src onto dst; how == "exact" keeps them, "nudged" moves one
\* point of dst off the correspondence, "short" drops one point of dst
AllInputs ==
    {[src |-> IF fwd THEN b ELSE Image(m, b),
      dst |-> LET d == IF fwd THEN Image(m, b) ELSE b
              IN IF how = "nudged" THEN Nudged(d)
                 ELSE IF how = "short" THEN Shortened(d) ELSE d,
      map |-> m, fwd |-> fwd, how |-> how] :
        b \in Lists(MaxN), m \in Maps, fwd \in BOOLEAN,
        how \in {"exact", "nudged", "short"}}

\* the inputs the estimator is called with: no list is empty
Inputs == {g \in AllInputs : g.dst # <<>>}

\* the object model_class() builds is a new one
NewModel == Len(models) + 1

\* a module-level transform, built by the first call and reused by every
\* later one
SharedModel == IF models = <<>> THEN NewModel ELSE Len(models)

\* where model = model_class() puts the transform of this call
ModelSlot == NewModel

\* the estimator fitting on top of the transform fitted last
calculate_transform_stateful(src, dst, model_class) ==
    LET r == calculate_transform(src, dst, model_class)
    IN IF models = <<>> \/ r.exc # "none" THEN r
       ELSE Ok(MatMul(models[Len(models)], r.params))

\* the call of calculate_transform an action makes
CalculateTransform(src, dst, model_class) ==
    calculate_transform(src, dst, model_class)

\* mat = calculate_transform(given.src, given.dst, model_class)
Call(model_class) ==
    /\ Len(models) < MaxCalls
    /\ Cardinality(calls) < MaxCalls
    /\ LET r == CalculateTransform(given.src, given.dst, model_class)
           k == ModelSlot
       IN /\ models' = IF r.exc # "none" THEN models
                       ELSE [i \in 1..(IF k > Len(models) THEN k
                                       ELSE Len(models)) |->
                                IF i = k THEN r.params ELSE models[i]]
          /\ calls' = calls \cup
                {[n |-> Cardinality(calls) + 1, src |-> given.src,
                  dst |-> given.dst, model_class |-> model_class,
                  exc |-> r.exc, params |-> r.params,
                  obj |-> IF r.exc = "none" THEN k ELSE 0]}
    /\ UNCHANGED <<given>>
    /\ UNCHANGED workflowVars
    /\ UNCHANGED widgetVars

InitEstimator ==
    /\ given \in Inputs
    /\ models = <<>>
    /\ calls = {}
    /\ InitWorkflow
    /\ WidgetSettled
    /\ affine["reference"] = Identity

NextEstimator == \E model_class \in Families : Call(model_class)

SpecEstimator == InitEstimator /\ [][NextEstimator]_vars

(* ------------------------------------------------ next_layer_callback *)
\* the callback returns without touching the viewer
Quiet ==
    /\ UNCHANGED <<selection, order, mode, affine>>
    /\ mat' = NoMat
    /\ written' = NoFile
    /\ ticked' = "none"

\* n0 >= ndim + 1 and n0 > n1: go on to the moving points layer
ToMoving ==
    /\ selection' = {"moving_pts"}
    /\ order' = MoveToTop(MoveToTop(order, "moving"), "moving_pts")
    /\ mode' = [mode EXCEPT !["moving_pts"] = "add"]
    /\ UNCHANGED affine
    /\ mat' = NoMat
    /\ written' = NoFile
    /\ ticked' = "none"

\* the guard off by one: n0 >= ndim
EnoughFromNdim(n0) == n0 >= ndim

\* the guard of the estimation: n0 > ndim
Enough(n0) == n0 > ndim

\* the product taken the other way round
MovingAffineSwapped(reference_affine, params) ==
    MatMul(params, reference_affine)

\* the affine given to the moving layers:
\* reference_image_layer.affine.affine_matrix @ mat.params
MovingAffine(reference_affine, params) == MatMul(reference_affine, params)

\* saving the matrix the moving layers were given
SavedComposed(reference_affine, params) == MatMul(reference_affine, params)

\* what np.savetxt is handed: np.asarray(mat.params)
Saved(reference_affine, params) == params

\* output is not None
OutputRequested(output) == output # None

\* n1 == n0: estimate when there are enough points, go back to the
\* reference points layer
Round(p0, p1) ==
    LET est == Enough(Len(p0))
        r == IF est THEN CalculateTransform(p0, p1, bound.model_class)
             ELSE Ok(NoMat)
        save == est /\ OutputRequested(bound.output)
    IN IF r.exc # "none" THEN Quiet
       ELSE
         /\ affine' = IF est
                      THEN [affine EXCEPT
                              !["moving"] =
                                  MovingAffine(affine["reference"], r.params),
                              !["moving_pts"] =
                                  MovingAffine(affine["reference"], r.params)]
                      ELSE affine
         /\ mat' = r.params
         /\ written' = IF save
                       THEN savetxt(Saved(affine["reference"], r.params), ",")
                       ELSE NoFile
         /\ ticked' = "none"
         /\ selection' = {"reference_pts"}
         /\ mode' = [mode EXCEPT !["reference_pts"] = "add"]
         /\ order' = MoveToTop(MoveToTop(order, "reference"), "reference_pts")

\* the reference points layer is in the selection
ReferenceSelected == "reference_pts" \in selection

\* the moving points layer is in the selection
MovingSelected == "moving_pts" \in selection

\* the moving list compared the loose way: n1 >= n0
AtLeastAsMany(n0, n1) == n1 >= n0

\* the points lists are of the same length: n1 == n0
SameCount(n0, n1) == n1 = n0

\* the reference points asked for before going on, doubled
TooFewTwice(n0) == n0 < 2 * ndim + 1

\* too few reference points to go on: n0 < ndim + 1
TooFew(n0) == n0 < ndim + 1

\* more reference points than moving points: n0 > n1
MoreReference(n0, n1) == n0 > n1

\* next_layer_callback, run on a data event with the layers holding p0, p1
NextLayerCallback(p0, p1) ==
    LET n0 == Len(p0)
        n1 == Len(p1)
    IN IF ReferenceSelected
       THEN IF TooFew(n0) THEN Quiet
            ELSE IF MoreReference(n0, n1) THEN ToMoving ELSE Quiet
       ELSE IF MovingSelected
            THEN IF SameCount(n0, n1) THEN Round(p0, p1) ELSE Quiet
            ELSE Quiet

\* a data event of a points layer: the callback runs when it is connected
DataEvent(p0, p1) ==
    /\ pts0' = p0
    /\ pts1' = p1
    /\ IF connected THEN NextLayerCallback(p0, p1) ELSE Quiet
    /\ UNCHANGED <<button, connected, bound>>
    /\ UNCHANGED estimatorVars
    /\ UNCHANGED widgetVars

(* ------------------------------------------------------- what users do *)
Present(layer) == \E i \in 1..Len(order) : order[i] = layer

\* the user marks the next landmark on the reference points layer
AddReferencePoint ==
    /\ Present("reference_pts")
    /\ Len(pts0) < MaxPts
    /\ DataEvent(Append(pts0, Landmark(Len(pts0) + 1)), pts1)
    /\ UNCHANGED estimated

\* the user marks a point on the moving points layer
AddMovingPoint(p) ==
    /\ Present("moving_pts")
    /\ Len(pts1) < MaxPts
    /\ DataEvent(pts0, Append(pts1, p))
    /\ UNCHANGED estimated

\* the user deletes the last point of a points layer
RemovePoint(layer) ==
    /\ Present(layer)
    /\ IF layer = "reference_pts"
       THEN pts0 # <<>> /\ DataEvent(SubSeq(pts0, 1, Len(pts0) - 1), pts1)
       ELSE pts1 # <<>> /\ DataEvent(pts0, SubSeq(pts1, 1, Len(pts1) - 1))
    /\ UNCHANGED estimated

\* the user selects layers in the layer list
Select(layers) ==
    /\ \A l \in layers : Present(l)
    /\ selection # layers
    /\ selection' = layers
    /\ mat' = NoMat
    /\ written' = NoFile
    /\ ticked' = "none"
    /\ UNCHANGED <<button, connected, bound, pts0, pts1, order, mode, affine>>
    /\ UNCHANGED estimatorVars
    /\ UNCHANGED estimated
    /\ UNCHANGED widgetVars

(* ------------------------------------------------------ start_affinder *)
\* 'Start': the points layers named in supplied are the user's own
\* (reference_points, moving_points), the others are None and made anew
\* over their image layer; the callback is connected to the two
Start(model_class, output, supplied) ==
    /\ button = "Start"
    /\ \A l \in supplied : Present(l)
    /\ pts0' = IF "reference_pts" \in supplied THEN pts0 ELSE <<>>
    /\ pts1' = IF "moving_pts" \in supplied THEN pts1 ELSE <<>>
    /\ affine' = [affine EXCEPT
                    !["reference_pts"] =
                        IF "reference_pts" \in supplied THEN @
                        ELSE affine["reference"],
                    !["moving_pts"] =
                        IF "moving_pts" \in supplied THEN @
                        ELSE affine["moving"]]
    /\ bound' = [model_class |-> model_class, output |-> output]
    /\ connected' = TRUE
    /\ order' =
          LET kept == SelectSeq(order,
                          LAMBDA l : l \notin PointsLayers \/ l \in supplied)
              added == kept
                       \o (IF "reference_pts" \in supplied THEN <<>>
                           ELSE <<"reference_pts">>)
                       \o (IF "moving_pts" \in supplied THEN <<>>
                           ELSE <<"moving_pts">>)
          IN MoveToTop(MoveToTop(MoveToTop(MoveToTop(added,
                 "moving"), "moving_pts"), "reference"), "reference_pts")
    /\ selection' = {"reference_pts"}
    /\ mode' = [mode EXCEPT !["reference_pts"] = "add",
                            !["moving_pts"] =
                                IF "moving_pts" \in supplied THEN @
                                ELSE "pan_zoom"]
    /\ button' = "Finish"
    /\ mat' = NoMat
    /\ written' = NoFile
    /\ ticked' = "none"
    /\ UNCHANGED estimatorVars
    /\ UNCHANGED estimated
    /\ UNCHANGED widgetVars

\* the check box read the wrong way round
RemovesWhenUnticked(delete_pts) == ~delete_pts

\* if delete_pts: start_affinder.remove_points_layers()
RemovesPoints(delete_pts) == delete_pts

\* closing that leaves the callback connected
close_affinder_modes_only(layers) ==
    [connected |-> connected, mode |-> [l \in layers |-> "pan_zoom"]]

\* close_affinder: the callback is disconnected from every layer given and
\* each is put in mode 'pan_zoom'
close_affinder(layers) ==
    [connected |-> FALSE, mode |-> [l \in layers |-> "pan_zoom"]]

\* close_affinder, then remove_pts_layers when delete_pts is ticked
Finish(delete_pts) ==
    /\ button = "Finish"
    /\ connected' = close_affinder(PointsLayers).connected
    /\ mode' = close_affinder(PointsLayers).mode
    /\ order' = IF RemovesPoints(delete_pts)
                THEN SelectSeq(order, LAMBDA l : l \notin PointsLayers)
                ELSE order
    /\ selection' = IF RemovesPoints(delete_pts)
                    THEN selection \ PointsLayers
                    ELSE selection
    /\ button' = "Start"
    /\ mat' = NoMat
    /\ written' = NoFile
    /\ ticked' = IF delete_pts THEN "ticked" ELSE "unticked"
    /\ UNCHANGED <<bound, pts0, pts1, affine>>
    /\ UNCHANGED estimatorVars
    /\ UNCHANGED estimated
    /\ UNCHANGED widgetVars

Outputs == {None, "out.csv"}

Selections == {{"reference_pts"}, {"moving_pts"},
               {"reference_pts", "moving_pts"}, {"reference"}}

Init ==
    /\ InitWorkflow
    /\ WidgetSettled
    /\ given = [src |-> <<>>, dst |-> <<>>, map |-> <<1, 0, 0, 1, 0, 0>>,
                fwd |-> TRUE, how |-> "exact"]
    /\ models = <<>>
    /\ calls = {}

Next ==
    \/ \E model_class \in Families, output \in Outputs,
          supplied \in SUBSET PointsLayers :
          Start(model_class, output, supplied)
    \/ \E delete_pts \in BOOLEAN : Finish(delete_pts)
    \/ AddReferencePoint
    \/ \E p \in MovingPlaces(Len(pts1) + 1) : AddMovingPoint(p)
    \/ \E layer \in PointsLayers : RemovePoint(layer)
    \/ \E layers \in Selections : Select(layers)

Spec == Init /\ [][Next]_vars

(* --------------------------------------------------------- one session *)
\* the step estimated: its pair count joins the history
Recorded ==
    estimated' = IF mat' # NoMat THEN Append(estimated, Len(pts1'))
                 ELSE estimated

\* 'Start' with reference_points and moving_points both None
StartSession ==
    \E model_class \in Families, output \in Outputs :
        Start(model_class, output, {})

\* the user marks the next landmark on the reference points layer, the
\* active layer
AddActiveReference ==
    /\ connected
    /\ selection = {"reference_pts"}
    /\ mode["reference_pts"] = "add"
    /\ Len(pts0) < MaxSession
    /\ DataEvent(Append(pts0, Landmark(Len(pts0) + 1)), pts1)
    /\ Recorded

\* the user marks a point on the moving points layer, the active layer
AddActiveMoving(p) ==
    /\ connected
    /\ selection = {"moving_pts"}
    /\ mode["moving_pts"] = "add"
    /\ Len(pts1) < MaxSession
    /\ DataEvent(pts0, Append(pts1, p))
    /\ Recorded

InitSession == Init

NextSession ==
    \/ StartSession
    \/ AddActiveReference
    \/ \E p \in MovingPlaces(Len(pts1) + 1) : AddActiveMoving(p)

SpecSession == InitSession /\ [][NextSession]_vars

\* the moving points layer is the active layer, in mode 'add', with room
\* for a point: AddActiveMoving is enabled
ActiveMovingOpen ==
    /\ connected
    /\ selection = {"moving_pts"}
    /\ mode["moving_pts"] = "add"
    /\ Len(pts1) < MaxSession

\* the user keeps adding points to the active layer: weak fairness of
\* AddActiveReference and of AddActiveMoving, the latter written out with
\* ActiveMovingOpen for its ENABLED and a change of pts1 for its step
SpecSessionLive ==
    /\ SpecSession
    /\ WF_vars(AddActiveReference)
    /\ ([]<>~ActiveMovingOpen \/ []<><<pts1' # pts1>>_vars)

(* ====================================================== the properties *)
\* the first two rows of the matrix are integers the model tracks
Tracked(m) ==
    \A r \in 1..2 : \A c \in 1..3 : m[r][c].t = "int"

\* the matrix takes every a[i] onto b[i]
MapsOnto(m, a, b) ==
    /\ Tracked(m)
    /\ Len(a) = Len(b)
    /\ Fits(m[1][1].v, m[1][2].v, m[2][1].v, m[2][2].v,
            m[1][3].v, m[2][3].v, a, b)

\* the determinant of the linear part of an integer map
Det(m) == m[1] * m[4] - m[2] * m[3]

\* the inverse of an integer map of determinant 1 or -1
InverseMap(m) ==
    LET d == Det(m)
        l11 == d * m[4]
        l12 == -d * m[2]
        l21 == -d * m[3]
        l22 == d * m[1]
    IN <<l11, l12, l21, l22,
         -(l11 * m[5] + l12 * m[6]), -(l21 * m[5] + l22 * m[6])>>

\* src has ndim + 1 or more points, not all on a line
GeneralPosition(a) == Len(a) >= ndim + 1 /\ Triangles(a) # {}

\* the calls whose lists are an exact correspondence under a map M of the
\* family of the call, the source points in general position
ExactCalls ==
    {c \in calls :
        /\ given.how = "exact"
        /\ given.map \in MapsOf(c.model_class)
        /\ GeneralPosition(c.src)}

\* C2: direction convention and exact recovery.  When dst[i] = M * src[i]
\* for a map M of the chosen family and src is in general position,
\* calculate_transform returns the matrix taking each dst[i] back onto
\* src[i], the inverse of M.  (M ranges over the maps of Maps and their
\* inverses; the inverse is compared entry by entry where it is integral.)
C2_InverseRecovered ==
    \A c \in ExactCalls :
        /\ c.exc = "none"
        /\ ~given.fwd => c.params = AsMatrix(given.map)
        /\ (given.fwd /\ Det(given.map) \in {1, -1}) =>
              /\ c.params = AsMatrix(InverseMap(given.map))
              /\ MatMul(c.params, AsMatrix(given.map)) = Identity
        /\ Tracked(c.params) => MapsOnto(c.params, c.dst, c.src)

\* a quarter turn with a shift was recovered from its images, in both
\* directions of the correspondence
C2_Witness ==
    \E c \in ExactCalls :
        /\ given.map = <<0, -1, 1, 0, 1, 0>>
        /\ given.fwd
        /\ c.model_class = "Euclidean"
        /\ c.params = Homog(I(0), I(1), I(0), I(-1), I(0), I(1))

\* the shift t with dst[i] = src[i] + t for every i, as a set (empty when
\* dst is no shift of src)
ShiftOf(src, dst) ==
    IF Len(src) # Len(dst) \/ src = <<>> THEN {}
    ELSE LET t == <<dst[1][1] - src[1][1], dst[1][2] - src[1][2]>>
         IN IF \A i \in 1..Len(src) :
                   dst[i] = <<src[i][1] + t[1], src[i][2] + t[2]>>
            THEN {t} ELSE {}

\* C3: for three or more non-collinear source points and dst[i] = src[i] + t,
\* the Euclidean estimate has the identity as rotation block and -t as
\* translation column.
C3_TranslationNegated ==
    \A c \in calls :
        (c.model_class = "Euclidean" /\ GeneralPosition(c.src)) =>
            \A t \in ShiftOf(c.src, c.dst) :
                /\ c.exc = "none"
                /\ c.params =
                      Homog(I(1), I(0), I(-t[1]), I(0), I(1), I(-t[2]))

\* a shift by <<1, 1>> came back as the translation <<-1, -1>>
C3_Witness ==
    \E c \in calls :
        /\ c.model_class = "Euclidean"
        /\ GeneralPosition(c.src)
        /\ <<1, 1>> \in ShiftOf(c.src, c.dst)
        /\ c.params = Homog(I(1), I(0), I(-1), I(0), I(1), I(-1))

\* C5: an estimate asked for with fewer than ndim + 1 point pairs fails
\* with DegenerateInputError and yields no matrix, whatever the family.
C5_TooFewPointsRejected ==
    \A c \in calls :
        (Len(c.src) = Len(c.dst) /\ Len(c.src) < ndim + 1) =>
            c.exc = "DegenerateInputError" /\ c.params = <<>>

\* C6: an estimate asked for with lists of different length fails with
\* DimensionMismatchError and no matrix is produced.
C6_MismatchRejected ==
    \A c \in calls :
        Len(c.src) # Len(c.dst) =>
            c.exc = "DimensionMismatchError" /\ c.params = <<>>

\* C8: the transform returned by an earlier call is never modified by a
\* later one: every call that returned a transform returned an object of
\* its own, and that object still holds the params it was returned with.
C8_EarlierModelsKept ==
    \A c \in calls :
        c.exc = "none" =>
            /\ c.obj \in 1..Len(models)
            /\ models[c.obj] = c.params
            /\ \A e \in calls : (e.exc = "none" /\ e.n # c.n) => e.obj # c.obj

\* two calls returned transforms with different params, both still there
C8_Witness ==
    \E c, e \in calls :
        /\ c.n < e.n
        /\ c.exc = "none" /\ e.exc = "none"
        /\ c.params # e.params
        /\ models[c.obj] = c.params
        /\ models[e.obj] = e.params

DataStep == (pts0' # pts0 \/ pts1' # pts1) /\ button' = button

\* the state in which next_layer_callback estimates: the callback is
\* connected, the moving points layer is selected and the reference points
\* layer is not, and the lists now hold equally many points, ndim + 1 or more
EstimationState ==
    /\ connected
    /\ MovingSelected
    /\ ~ReferenceSelected
    /\ Len(pts1') = Len(pts0')
    /\ Len(pts0') >= ndim + 1

\* C1: an estimate is made only in a step from an EstimationState; every
\* other point-data event estimates nothing and leaves the affines of the
\* moving layers as they were.
C1_EstimationGuarded ==
    [][/\ mat' # NoMat => EstimationState
       /\ (DataStep /\ ~EstimationState) =>
             /\ mat' = NoMat
             /\ affine'["moving"] = affine["moving"]
             /\ affine'["moving_pts"] = affine["moving_pts"]]_vars

\* an estimate was made, with ndim + 1 or more points in each list
C1_Witness ==
    /\ mat # NoMat
    /\ Len(pts0) = Len(pts1)
    /\ Len(pts0) >= ndim + 1

\* C4: after an estimation both moving layers carry the reference image
\* layer's affine composed with the estimated matrix, the estimate being
\* the one made with the reference points as src and the moving points as
\* dst: where the model tracks the affine fit of ndim + 1 points, it takes
\* the moving points onto the reference points.  The affines of the
\* reference layers stay as they were.
C4_MovingAffineComposed ==
    [][mat' # NoMat =>
          /\ affine'["moving"] = MatMul(affine["reference"], mat')
          /\ affine'["moving_pts"] = MatMul(affine["reference"], mat')
          /\ affine'["reference"] = affine["reference"]
          /\ affine'["reference_pts"] = affine["reference_pts"]
          /\ (Tracked(mat') /\ bound.model_class = "affine"
                /\ Len(pts0') = ndim + 1)
                => MapsOnto(mat', pts1', pts0')]_vars

\* a tracked affine estimate other than the identity was composed with a
\* reference affine other than the identity
C4_Witness ==
    /\ mat # NoMat
    /\ Tracked(mat)
    /\ mat # Identity
    /\ bound.model_class = "affine"
    /\ affine["reference"] # Identity
    /\ affine["moving"] = MatMul(affine["reference"], mat)
    /\ affine["moving"] # MatMul(mat, affine["reference"])

\* C7: every matrix calculate_transform returns for a list pair the
\* workflow hands it has the bottom row [0, 0, 1], and so has the affine
\* the moving layers are given.
C7_BottomRow ==
    mat # NoMat =>
        /\ mat[3] = <<I(0), I(0), I(1)>>
        /\ affine["moving"][3] = <<I(0), I(0), I(1)>>
        /\ affine["moving_pts"][3] = <<I(0), I(0), I(1)>>

\* C10: np.savetxt runs exactly in the steps that estimate while an output
\* was asked for, and writes the rows of mat.params, comma-delimited.
C10_WrittenWhenEstimated ==
    [][/\ (written' # NoFile) <=> (mat' # NoMat /\ bound'.output # None)
       /\ written' # NoFile =>
             written' = [delimiter |-> ",", rows |-> mat']]_vars

\* an estimate made under a reference affine other than the identity was
\* written
C10_Witness ==
    /\ written # NoFile
    /\ affine["reference"] # Identity
    /\ written.rows = mat
    /\ written.rows # affine["moving"]

\* C13: family nesting.  When dst is the image of src under a rigid motion
\* and src is in general position, the affine estimate is the same matrix as
\* the Euclidean estimate of the same lists.
C13_AffineMatchesEuclidean ==
    \A c, e \in calls :
        (/\ c.model_class = "affine"
         /\ e.model_class = "Euclidean"
         /\ given.how = "exact"
         /\ given.map \in Rigid
         /\ GeneralPosition(c.src))
            => /\ c.exc = "none"
               /\ e.exc = "none"
               /\ Tracked(c.params)
               /\ c.params = e.params

\* both families were asked about the images of a quarter turn with a
\* shift and gave the same tracked matrix, not the identity
C13_Witness ==
    \E c, e \in calls :
        /\ c.model_class = "affine"
        /\ e.model_class = "Euclidean"
        /\ given.how = "exact"
        /\ given.map = <<0, -1, 1, 0, 1, 0>>
        /\ GeneralPosition(c.src)
        /\ Tracked(c.params)
        /\ c.params # Identity
        /\ c.params = e.params

(* ------------------------------------------- the reference/moving choice *)
\* choice_names.index(choice_name): the first place of the name in the list
IndexOf(names, choice_name) ==
    CHOOSE i \in 1..Len(names) :
        /\ names[i] = choice_name
        /\ \A j \in 1..(i - 1) : names[j] # choice_name

\* the choice that stays where it is
SameIndex(index, n) == index

\* (index + 1) % len(choices), on places counted from 1
NextIndex(index, n) == (index % n) + 1

\* _update_unique_choices(widget, choice_name): the value of the widget
\* afterwards, value being what it holds now
UpdateUniqueChoices(value, choice_name) ==
    LET index == IndexOf(choices, choice_name)
    IN IF value = choices[index]
       THEN choices[NextIndex(index, Len(choices))]
       ELSE value

\* _on_affinder_main_init: the two callbacks are connected and the moving
\* choice is made to differ from the reference choice
OnAffinderMainInit ==
    /\ ~widgetReady
    /\ moving' = UpdateUniqueChoices(moving, reference)
    /\ widgetReady' = TRUE
    /\ UNCHANGED <<choices, reference>>
    /\ UNCHANGED estimatorVars
    /\ UNCHANGED workflowVars

\* the user picks another reference layer: widget.reference.changed
ChangeReference(layer) ==
    /\ widgetReady
    /\ layer # reference
    /\ reference' = layer
    /\ moving' = UpdateUniqueChoices(moving, layer)
    /\ UNCHANGED <<choices, widgetReady>>
    /\ UNCHANGED estimatorVars
    /\ UNCHANGED workflowVars

\* the user picks another moving layer: widget.moving.changed
ChangeMoving(layer) ==
    /\ widgetReady
    /\ layer # moving
    /\ moving' = layer
    /\ reference' = UpdateUniqueChoices(reference, layer)
    /\ UNCHANGED <<choices, widgetReady>>
    /\ UNCHANGED estimatorVars
    /\ UNCHANGED workflowVars

\* the widget as magicgui builds it over a viewer of 1..MaxChoices layers,
\* each combo box holding one of them
InitWidget ==
    /\ \E n \in 1..MaxChoices : choices = [i \in 1..n |-> i]
    /\ reference \in 1..Len(choices)
    /\ moving \in 1..Len(choices)
    /\ widgetReady = FALSE
    /\ InitWorkflow
    /\ affine["reference"] = Identity
    /\ given = [src |-> <<>>, dst |-> <<>>, map |-> <<1, 0, 0, 1, 0, 0>>,
                fwd |-> TRUE, how |-> "exact"]
    /\ models = <<>>
    /\ calls = {}

NextWidget ==
    \/ OnAffinderMainInit
    \/ \E layer \in 1..Len(choices) : ChangeReference(layer)
    \/ \E layer \in 1..Len(choices) : ChangeMoving(layer)

SpecWidget == InitWidget /\ [][NextWidget]_vars

In(layers, layer) == \E i \in 1..Len(layers) : layers[i] = layer

\* C12: a click on 'Finish' removes the two points layers of the alignment
\* from the viewer when delete_pts is ticked at that click, and removes no
\* layer when it is not.
C12_RemovedIffTicked ==
    [][(button = "Finish" /\ button' = "Start") =>
          /\ ticked' # "none"
          /\ \A l \in PointsLayers : In(order, l)
          /\ ticked' = "ticked" =>
                /\ \A l \in PointsLayers : ~In(order', l)
                /\ \A l \in {"reference", "moving"} : In(order', l)
          /\ ticked' = "unticked" => order' = order]_vars

\* 'Finish' was clicked with delete_pts ticked on layers holding points, and
\* the points layers are gone
C12_Witness ==
    /\ ticked = "ticked"
    /\ button = "Start"
    /\ pts0 # <<>>
    /\ pts1 # <<>>
    /\ \A l \in PointsLayers : ~In(order, l)

\* C14: when the callback runs with the reference points layer selected,
\* fewer than ndim + 1 reference points change nothing; with ndim + 1 or more
\* and more of them than moving points the moving points layer becomes the
\* active layer in mode 'add'; otherwise the active layer stays. The callback
\* goes on to the moving points layer only with ndim + 1 reference points.
C14_ReferenceBranch ==
    [][(DataStep /\ connected) =>
          LET n0 == Len(pts0')
              n1 == Len(pts1')
          IN /\ ReferenceSelected =>
                  /\ n0 < ndim + 1 =>
                        UNCHANGED <<selection, order, mode, affine>>
                  /\ (n0 >= ndim + 1 /\ n0 > n1) =>
                        /\ selection' = {"moving_pts"}
                        /\ mode'["moving_pts"] = "add"
                  /\ (n0 >= ndim + 1 /\ n0 <= n1) => selection' = selection
             /\ (selection # {"moving_pts"} /\ selection' = {"moving_pts"})
                  => n0 >= ndim + 1]_vars

\* the callback has gone on to the moving points layer with ndim + 1
\* reference points and no moving point
C14_Witness ==
    /\ connected
    /\ selection = {"moving_pts"}
    /\ mode["moving_pts"] = "add"
    /\ Len(pts0) = ndim + 1
    /\ pts1 = <<>>

\* C15: when the callback runs with the moving points layer selected and
\* the reference points layer not, unequal counts change nothing, and equal
\* counts make the reference points layer the active layer in mode 'add',
\* with ndim points or fewer as well.
C15_MovingBranch ==
    [][(DataStep /\ connected /\ MovingSelected /\ ~ReferenceSelected) =>
          LET n0 == Len(pts0')
              n1 == Len(pts1')
          IN /\ n1 # n0 =>
                  /\ UNCHANGED <<selection, order, mode, affine>>
                  /\ mat' = NoMat
             /\ n1 = n0 =>
                  /\ selection' = {"reference_pts"}
                  /\ mode'["reference_pts"] = "add"
                  /\ (n0 <= ndim => mat' = NoMat /\ affine' = affine)]_vars

\* the lists hold ndim points each, no estimate was made and the reference
\* points layer is the active layer in mode 'add'
C15_Witness ==
    /\ connected
    /\ selection = {"reference_pts"}
    /\ mode["reference_pts"] = "add"
    /\ Len(pts0) = ndim
    /\ Len(pts1) = ndim
    /\ mat = NoMat
    /\ order[Len(order)] = "reference_pts"

\* C16: the button goes from 'Start' to 'Finish' and back, the callback is
\* connected exactly while it reads 'Finish', a click on 'Finish' leaves both
\* points layers in mode 'pan_zoom', and while the button reads 'Start' a
\* point-data event estimates nothing, switches no layer and changes no affine.
C16_StartFinish ==
    [][/\ connected <=> button = "Finish"
       /\ connected' <=> button' = "Finish"
       /\ button' # button =>
             \/ button = "Start" /\ button' = "Finish"
             \/ button = "Finish" /\ button' = "Start"
       /\ (button = "Finish" /\ button' = "Start") =>
             \A l \in PointsLayers : mode'[l] = "pan_zoom"
       /\ (DataStep /\ button = "Start") =>
             /\ mat' = NoMat
             /\ UNCHANGED <<selection, order, mode, affine>>]_vars

\* after 'Finish' the kept layers hold ndim + 1 points each with the moving
\* points layer selected, and nothing was estimated
C16_Witness ==
    /\ button = "Start"
    /\ ~connected
    /\ ticked = "none"
    /\ In(order, "reference_pts")
    /\ selection = {"moving_pts"}
    /\ Len(pts0) = ndim + 1
    /\ Len(pts1) = ndim + 1
    /\ mat = NoMat
    /\ \A l \in PointsLayers : mode[l] = "pan_zoom"

\* C17: in a session of two layers made empty where points are only added
\* to the active points layer, n1 <= n0 <= n1 + ndim + 1 in every state, and
\* n0 - n1 is 0 or 1 once an estimate has been made.
C17_CountsInStep ==
    LET n0 == Len(pts0)
        n1 == Len(pts1)
    IN /\ n1 <= n0
       /\ n0 <= n1 + ndim + 1
       /\ estimated # <<>> => n0 - n1 \in {0, 1}

\* after the first estimate the reference points layer is one point ahead
C17_Witness ==
    /\ estimated # <<>>
    /\ Len(pts0) = ndim + 2
    /\ Len(pts1) = ndim + 1
    /\ selection = {"moving_pts"}

\* the pair counts from ndim + 1 up to n1
PairCounts(n1) ==
    [i \in 1..(IF n1 > ndim THEN n1 - ndim ELSE 0) |-> ndim + i]

\* C18: in such a session an estimate is made once for each pair count k
\* from ndim + 1 on, in increasing order, in the step in which the moving
\* count reaches k, so that n0 = n1 = N >= ndim + 1 comes with N - ndim
\* estimates; and as the user keeps adding points, each reference point
\* from the (ndim + 1)-th on comes to be used in an estimate.
C18_OncePerPair ==
    /\ [](estimated = PairCounts(Len(pts1)))
    /\ []((Len(pts0) = Len(pts1) /\ Len(pts0) >= ndim + 1)
              => Len(estimated) = Len(pts0) - ndim)
    /\ [][mat' # NoMat =>
             /\ Len(pts1') = Len(pts1) + 1
             /\ Len(pts1') = Len(pts0')
             /\ Len(pts0') >= ndim + 1]_vars
    /\ (Len(pts0) >= ndim + 1)
          ~> (Len(pts0) >= ndim + 1 /\ estimated = PairCounts(Len(pts0)))

\* two estimates have been made, for three pairs and then for four
C18_Witness ==
    /\ Len(pts0) = ndim + 2
    /\ Len(pts1) = ndim + 2
    /\ estimated = <<ndim + 1, ndim + 2>>
    /\ mat # NoMat

====
